---- MODULE Spec2Model ----
(***************************************************************************)
(* Network simulator screen of src/app/home.tsx (SimulatorScreen, lines    *)
(* 1756-3321): the node graph, the connection records, the packets in      *)
(* flight, the traffic statistics and the saved configurations, with one   *)
(* action per handler of the screen.                                       *)
(*                                                                         *)
(* Node attributes that no handler reads back (label, ip) are not part of  *)
(* the state here, nor are x and y, which no handler assigns after the     *)
(* node is created (Position gives them where the press on the simulation  *)
(* area reads them); a node is its id, type, link list, status, bandwidth, *)
(* latency and packetLoss.                                                 *)
(*                                                                         *)
(* Quiz screen of src/unnamed/part_001 (QuizScreen, lines 312-402): the    *)
(* quiz in progress, the history in memory, the 'quizHistory' slot of      *)
(* AsyncStorage, and the load and the saves that are under way.            *)
(***************************************************************************)
EXTENDS Integers, Sequences, FiniteSets, TLC

VARIABLES nodes, connections, packets, selectedNode, isSimulating,
          packetType, networkStats, packetFilters, savedConfigs,
          intervals, cleanup, findArgs, findResult,
          currentQuestion, selectedAnswer, showExplanation, score,
          quizCompleted, quizHistory, storedHistory, loadHistory,
          savedHistory, saves, attempt, calls

vars == <<nodes, connections, packets, selectedNode, isSimulating,
          packetType, networkStats, packetFilters, savedConfigs,
          intervals, cleanup, findArgs, findResult,
          currentQuestion, selectedAnswer, showExplanation, score,
          quizCompleted, quizHistory, storedHistory, loadHistory,
          savedHistory, saves, attempt, calls>>

\* the quiz screen: its state hooks; storedHistory, the value of the
\* 'quizHistory' slot (<<>>: no value); loadHistory, where the load of the
\* mount effect stands, and savedHistory, what its getItem read; saves, the
\* values of the setItem calls not yet resolved, oldest first; attempt, the
\* number of the run through the questions, and calls, the number of calls
\* of handleQuizComplete so far
quizVars == <<currentQuestion, selectedAnswer, showExplanation, score,
              quizCompleted, quizHistory, storedHistory, loadHistory,
              savedHistory, saves, attempt, calls>>

screenVars == <<nodes, connections, packets, selectedNode, isSimulating,
                packetType, networkStats, packetFilters, savedConfigs,
                intervals, cleanup>>

\* the interval of the tick effect: intervals is the set of ids of the
\* setInterval timers not yet cleared, cleanup the id that the cleanup function
\* returned by the effect's last run clears (0: that run returned none)
timerVars == <<intervals, cleanup>>

(***************************************************************************)
(* Bounds of the exploration.                                              *)
(***************************************************************************)
MaxPackets == 2
MaxConfigPackets == 1
MaxAdded == 1
MaxConnections == 1
MaxSaved == 1
MaxLinks == 4
MinBandwidth == 10
MaxLatency == 5

null == "null"

Range(s) == {s[i] : i \in 1..Len(s)}

(***************************************************************************)
(* The numbers of bandwidth, latency and packetLoss: a non-negative        *)
(* rational <<numerator, denominator>> in lowest terms.  The arithmetic is *)
(* exact; the rounding of the doubles is not modelled.                     *)
(***************************************************************************)
RECURSIVE GCD(_, _)
GCD(a, b) == IF b = 0 THEN a ELSE GCD(b, a % b)

Rat(n, d) == <<n \div GCD(n, d), d \div GCD(n, d)>>

\* NaN, the value of a text that is no number: <<0, 0>>.  Arithmetic with NaN
\* gives NaN, and every comparison with NaN is false.
NaN == <<0, 0>>

Times(r, s) ==
    IF r = NaN \/ s = NaN THEN NaN ELSE Rat(r[1] * s[1], r[2] * s[2])

Leq(r, s) == r # NaN /\ s # NaN /\ r[1] * s[2] <= s[1] * r[2]

(***************************************************************************)
(* initialNodes: two routers, two switches, four hosts.  Every node the    *)
(* screen creates (initialNodes, the layouts, Add Node) has the bandwidth, *)
(* latency and packetLoss of its type.                                     *)
(***************************************************************************)
TypeBandwidth(type) ==
    IF type = "router" THEN Rat(1000, 1)
    ELSE IF type = "switch" THEN Rat(100, 1) ELSE Rat(10, 1)

TypeLatency(type) ==
    IF type = "router" THEN Rat(5, 1)
    ELSE IF type = "switch" THEN Rat(1, 1) ELSE Rat(1, 2)

TypePacketLoss(type) ==
    IF type = "router" THEN Rat(1, 10)
    ELSE IF type = "switch" THEN Rat(1, 20) ELSE Rat(0, 1)

Node(id, type, conns) ==
    [id |-> id, type |-> type, connections |-> conns, status |-> "active",
     bandwidth |-> TypeBandwidth(type), latency |-> TypeLatency(type),
     packetLoss |-> TypePacketLoss(type)]

initialNodes ==
    << Node("R1", "router", <<"S1", "R2">>),
       Node("R2", "router", <<"R1", "S2">>),
       Node("S1", "switch", <<"R1", "H1", "H2">>),
       Node("S2", "switch", <<"R2", "H3", "H4">>),
       Node("H1", "host", <<"S1">>),
       Node("H2", "host", <<"S1">>),
       Node("H3", "host", <<"S2">>),
       Node("H4", "host", <<"S2">>) >>

NodeIds(ns) == {ns[i].id : i \in 1..Len(ns)}

\* nodes.find(n => n.id === id): the first node with that id
HasNode(ns, id) == \E i \in 1..Len(ns) : ns[i].id = id

FindNode(ns, id) ==
    ns[CHOOSE i \in 1..Len(ns) :
          /\ ns[i].id = id
          /\ \A j \in 1..(i - 1) : ns[j].id # id]

(***************************************************************************)
(* findPath: breadth-first search with a queue of paths.  The for loop     *)
(* over currentNode.connections is Expand; the while loop is bfsLoop.      *)
(***************************************************************************)
RECURSIVE ExpandFirstOnly(_, _, _, _)
ExpandFirstOnly(conns, path, queue, visited) ==
    IF conns = <<>>
    THEN [queue |-> queue, visited |-> visited]
    ELSE IF Head(conns) \notin visited
         THEN [queue |-> Append(queue, Append(path, Head(conns))),
               visited |-> visited \cup {Head(conns)}]
         ELSE ExpandFirstOnly(Tail(conns), path, queue, visited)

RECURSIVE Expand(_, _, _, _)
Expand(conns, path, queue, visited) ==
    IF conns = <<>>
    THEN [queue |-> queue, visited |-> visited]
    ELSE IF Head(conns) \notin visited
         THEN Expand(Tail(conns), path,
                     Append(queue, Append(path, Head(conns))),
                     visited \cup {Head(conns)})
         ELSE Expand(Tail(conns), path, queue, visited)

\* the destination test left out for the path [source]
RECURSIVE bfsLoopSkipStart(_, _, _, _)
bfsLoopSkipStart(queue, visited, destination, ns) ==
    IF queue = <<>>
    THEN <<>>
    ELSE LET path == Head(queue)
             current == path[Len(path)]
         IN  IF current = destination /\ Len(path) > 1
             THEN path
             ELSE IF ~HasNode(ns, current)
                  THEN bfsLoopSkipStart(Tail(queue), visited, destination, ns)
                  ELSE LET r == Expand(FindNode(ns, current).connections,
                                       path, Tail(queue), visited)
                       IN  bfsLoopSkipStart(r.queue, r.visited, destination, ns)

RECURSIVE bfsLoop(_, _, _, _)
bfsLoop(queue, visited, destination, ns) ==
    IF queue = <<>>
    THEN <<>>
    ELSE LET path == Head(queue)
             current == path[Len(path)]
         IN  IF current = destination
             THEN path
             ELSE IF ~HasNode(ns, current)
                  THEN bfsLoop(Tail(queue), visited, destination, ns)
                  ELSE LET r == Expand(FindNode(ns, current).connections,
                                       path, Tail(queue), visited)
                       IN  bfsLoop(r.queue, r.visited, destination, ns)

findPath(source, destination, ns) ==
    bfsLoop(<< <<source>> >>, {}, destination, ns)

(***************************************************************************)
(* Hop distance in the graph of link lists, by layers: Within(ns, s, k) is *)
(* the set of ids at most k links away from s.                             *)
(***************************************************************************)
LinksOf(ns, id) ==
    IF HasNode(ns, id) THEN Range(FindNode(ns, id).connections) ELSE {}

AllIds(ns) == NodeIds(ns) \cup UNION {Range(ns[i].connections) : i \in 1..Len(ns)}

\* ids at most k links away from the ids of the set from
RECURSIVE Grow(_, _, _)
Grow(ns, from, k) ==
    IF k = 0
    THEN from
    ELSE LET next == from \cup UNION {LinksOf(ns, a) : a \in from}
         IN  IF next = from THEN from ELSE Grow(ns, next, k - 1)

Within(ns, s, k) == Grow(ns, {s}, k)

Reachable(ns, s, d) == d \in Within(ns, s, Cardinality(AllIds(ns)))

Distance(ns, s, d) ==
    CHOOSE k \in 0..Cardinality(AllIds(ns)) :
        /\ d \in Within(ns, s, k)
        /\ \A j \in 0..(k - 1) : d \notin Within(ns, s, j)

\* p is a walk from s to d along link lists
IsPath(ns, p, s, d) ==
    /\ Len(p) >= 1
    /\ p[1] = s
    /\ p[Len(p)] = d
    /\ \A i \in 1..(Len(p) - 1) : p[i + 1] \in LinksOf(ns, p[i])

(***************************************************************************)
(* networkTopologies: the three generated layouts.                         *)
(***************************************************************************)
\* the id the create() loops give the node at 0-based index: `S${index + 1}`
TypedId(type, index) ==
    (IF type = "router" THEN "R" ELSE IF type = "switch" THEN "S" ELSE "H")
        \o ToString(index + 1)

\* star and bus: hub R1 first, then the listed nodes, each linked to R1 only
HubLayout(nodeTypes) ==
    LET leaves == [i \in 1..Len(nodeTypes) |->
                      Node(TypedId(nodeTypes[i], i - 1), nodeTypes[i], <<"R1">>)]
    IN  << Node("R1", "router", [i \in 1..Len(leaves) |-> leaves[i].id]) >>
            \o leaves

\* the star layout without the final "Update router connections" assignment
starCreateHubUnlinked ==
    LET layout == HubLayout(<<"switch", "switch", "host", "host", "host", "host">>)
    IN  [layout EXCEPT ![1].connections = <<>>]

starCreate ==
    HubLayout(<<"switch", "switch", "host", "host", "host", "host">>)

busCreate ==
    HubLayout(<<"switch", "host", "switch", "host", "host", "host">>)

\* nodes.filter((_, j) => i !== j).map(n => n.id)
OtherIds(ids, i) ==
    [k \in 1..(Len(ids) - 1) |-> IF k < i THEN ids[k] ELSE ids[k + 1]]

meshCreate ==
    LET nodeTypes == <<"router", "router", "switch", "switch", "host", "host">>
        ids == [i \in 1..Len(nodeTypes) |-> TypedId(nodeTypes[i], i - 1)]
    IN  [i \in 1..Len(nodeTypes) |-> Node(ids[i], nodeTypes[i], OtherIds(ids, i))]

Topologies == {"star", "mesh", "bus"}

TopologyCreate(topology) ==
    CASE topology = "star" -> starCreate
      [] topology = "mesh" -> meshCreate
      [] topology = "bus"  -> busCreate

(***************************************************************************)
(* simulationScenarios: setup(nodes, connections).  failed is the set of   *)
(* ids the failure scenario picked; the other scenarios ignore it.         *)
(***************************************************************************)
Scenarios == {"normal", "congestion", "failure", "security"}

CriticalIds(ns) ==
    {ns[i].id : i \in {j \in 1..Len(ns) : ns[j].type \in {"router", "switch"}}}

\* criticalNodes.sort(() => Math.random() - 0.5).slice(0, 2): any two of them,
\* or all of them when there are fewer than two
FailureChoices(ns) ==
    LET crit == CriticalIds(ns)
    IN  IF Cardinality(crit) <= 2
        THEN {crit}
        ELSE {f \in SUBSET crit : Cardinality(f) = 2}

SecurityFilter(n) ==
    [allowedTypes |-> IF n.type = "router" THEN <<"TCP", "UDP", "ICMP">>
                      ELSE IF n.type = "switch" THEN <<"TCP", "UDP">>
                      ELSE <<"TCP">>,
     maxBandwidth |-> Times(n.bandwidth, Rat(7, 10)),
     priority |-> IF n.type = "router" THEN 3
                  ELSE IF n.type = "switch" THEN 2 ELSE 1]

ScenarioNodes(scenario, ns, failed) ==
    [i \in 1..Len(ns) |->
        CASE scenario = "normal" ->
                 [ns[i] EXCEPT !.status = "active"]
          [] scenario = "congestion" ->
                 [ns[i] EXCEPT !.status = "active",
                               !.latency = Times(@, Rat(3, 1)),
                               !.packetLoss = Times(@, Rat(2, 1))]
          [] scenario = "failure" ->
                 [ns[i] EXCEPT !.status =
                     IF ns[i].id \in failed THEN "inactive" ELSE "active"]
          [] scenario = "security" ->
                 [ns[i] EXCEPT !.status = "active",
                               !.bandwidth = Times(@, Rat(7, 10))]]

\* the failure setup with `n.id === conn.from` only
ScenarioConnectionsFromOnly(scenario, cs, failed) ==
    [i \in 1..Len(cs) |->
        [cs[i] EXCEPT !.status =
            IF scenario = "failure" /\ cs[i].from \in failed
            THEN "inactive" ELSE "active"]]

ScenarioConnections(scenario, cs, failed) ==
    [i \in 1..Len(cs) |->
        CASE scenario = "normal" ->
                 [cs[i] EXCEPT !.status = "active"]
          [] scenario = "congestion" ->
                 [cs[i] EXCEPT !.status = "active",
                               !.latency = Times(@, Rat(3, 1)),
                               !.packetLoss = Times(@, Rat(2, 1)),
                               !.bandwidth = Times(@, Rat(1, 2))]
          [] scenario = "failure" ->
                 [cs[i] EXCEPT !.status =
                     IF cs[i].from \in failed \/ cs[i].to \in failed
                     THEN "inactive" ELSE "active"]
          [] scenario = "security" ->
                 [cs[i] EXCEPT !.status = "active",
                               !.bandwidth = Times(@, Rat(7, 10))]]

ScenarioFilters(scenario, ns) ==
    IF scenario = "security"
    THEN [id \in NodeIds(ns) |-> SecurityFilter(FindNode(ns, id))]
    ELSE <<>>

(***************************************************************************)
(* The screen after construction (the useState initial values).            *)
(***************************************************************************)
emptyStats ==
    [totalPackets |-> 0, successfulPackets |-> 0, droppedPackets |-> 0,
     packetTypes |-> [t \in {"TCP", "UDP", "ICMP"} |-> 0],
     nodeStats |-> <<>>]

\* QuizScreen's useState initial values, with the load of the mount effect
\* about to call getItem, and stored in the 'quizHistory' slot
InitQuizScreen(stored) ==
    /\ currentQuestion = 0
    /\ selectedAnswer = null
    /\ showExplanation = FALSE
    /\ score = 0
    /\ quizCompleted = FALSE
    /\ quizHistory = <<>>
    /\ storedHistory = stored
    /\ loadHistory = "getItem"
    /\ savedHistory = <<>>
    /\ saves = <<>>
    /\ attempt = 1
    /\ calls = 0

InitSimulator ==
    /\ nodes = initialNodes
    /\ connections = <<>>
    /\ packets = <<>>
    /\ selectedNode = null
    /\ isSimulating = FALSE
    /\ packetType = "TCP"
    /\ networkStats = emptyStats
    /\ packetFilters = <<>>
    /\ savedConfigs = <<>>
    /\ intervals = {}
    /\ cleanup = 0
    /\ findArgs = <<>>
    /\ findResult = <<>>

Init == InitSimulator /\ InitQuizScreen(<<>>)

(***************************************************************************)
(* handleNodePress(nodeId): the second press on a different node records a *)
(* Connection and appends each endpoint to the other's link list.          *)
(***************************************************************************)
LinkNodes(ns, a, b) ==
    [i \in 1..Len(ns) |->
        IF ns[i].id = a
        THEN [ns[i] EXCEPT !.connections = Append(@, b)]
        ELSE IF ns[i].id = b
             THEN [ns[i] EXCEPT !.connections = Append(@, a)]
             ELSE ns[i]]

newConnection(cs, from, to) ==
    [id |-> "C" \o ToString(Len(cs) + 1), from |-> from, to |-> to,
     bandwidth |-> Rat(100, 1), latency |-> Rat(1, 1),
     packetLoss |-> Rat(1, 20), status |-> "active"]

handleNodePress(nodeId) ==
    /\ HasNode(nodes, nodeId)
    /\ IF selectedNode # null
       THEN /\ IF selectedNode # nodeId
               THEN /\ connections' =
                         Append(connections,
                                newConnection(connections, selectedNode, nodeId))
                    /\ nodes' = LinkNodes(nodes, selectedNode, nodeId)
               ELSE UNCHANGED <<nodes, connections>>
            /\ selectedNode' = null
       ELSE /\ selectedNode' = nodeId
            /\ UNCHANGED <<nodes, connections>>
    /\ UNCHANGED <<packets, isSimulating, packetType, networkStats,
                   packetFilters, savedConfigs, findArgs, findResult, timerVars, quizVars>>

\* renderNode's onPress: setSelectedNode(node.id)
nodeOnPress(nodeId) ==
    /\ HasNode(nodes, nodeId)
    /\ selectedNode' = nodeId
    /\ UNCHANGED <<nodes, connections, packets, isSimulating, packetType,
                   networkStats, packetFilters, savedConfigs, findArgs, findResult, timerVars, quizVars>>

getNodeRadius(type) ==
    CASE type = "router" -> 30
      [] type = "switch" -> 25
      [] type = "host" -> 20
      [] OTHER -> 15

\* x and y of the initial nodes.  No handler assigns x or y after a node is
\* created, and the "Add Node" button creates every node at (200, 200), so
\* on the initial graph with added nodes the position is given by the id.
initialPositions ==
    [R1 |-> <<100, 100>>, R2 |-> <<300, 100>>,
     S1 |-> <<100, 250>>, S2 |-> <<300, 250>>,
     H1 |-> <<50, 400>>, H2 |-> <<150, 400>>,
     H3 |-> <<250, 400>>, H4 |-> <<350, 400>>]

Position(n) ==
    IF n.id \in DOMAIN initialPositions THEN initialPositions[n.id]
    ELSE <<200, 200>>

\* dx * dx + dy * dy: the square of `distance`
Distance2(n, locationX, locationY) ==
    LET dx == Position(n)[1] - locationX
        dy == Position(n)[2] - locationY
    IN  dx * dx + dy * dy

\* the node's bounding square in place of its circle
simulationAreaOnPressBox(locationX, locationY) ==
    LET inBox(n) ==
            LET dx == Position(n)[1] - locationX
                dy == Position(n)[2] - locationY
                r == getNodeRadius(n.type)
            IN  dx <= r /\ -dx <= r /\ dy <= r /\ -dy <= r
        found == {i \in 1..Len(nodes) : inBox(nodes[i])}
    IN  IF found # {}
        THEN handleNodePress(
                 nodes[CHOOSE i \in found : \A j \in found : i <= j].id)
        ELSE UNCHANGED vars

\* the simulation area's onPress: nodes.find(n => distance <=
\* getNodeRadius(n.type)) is the first such node of the array;
\* Math.sqrt(d2) <= r is d2 <= r * r for these integers
simulationAreaOnPress(locationX, locationY) ==
    LET found == {i \in 1..Len(nodes) :
                     Distance2(nodes[i], locationX, locationY)
                         <= getNodeRadius(nodes[i].type)
                              * getNodeRadius(nodes[i].type)}
    IN  IF found # {}
        THEN handleNodePress(
                 nodes[CHOOSE i \in found : \A j \in found : i <= j].id)
        ELSE UNCHANGED vars

\* the ids renderAddNode gives: `N${nodes.length + 1}`
AddedIds == {"N" \o ToString(k) : k \in 1..(Len(initialNodes) + MaxAdded + 1)}

\* the id counted from the initial graph, not from the nodes there are
addNodeInitialCount(newNodeType) ==
    /\ nodes' = Append(nodes,
                       Node("N" \o ToString(Len(initialNodes) + 1),
                            newNodeType, <<>>))
    /\ UNCHANGED <<connections, packets, selectedNode, isSimulating, packetType,
                   networkStats, packetFilters, savedConfigs, findArgs, findResult, timerVars, quizVars>>

\* renderAddNode's "Add Node" onPress
addNode(newNodeType) ==
    /\ nodes' = Append(nodes,
                       Node("N" \o ToString(Len(nodes) + 1), newNodeType, <<>>))
    /\ UNCHANGED <<connections, packets, selectedNode, isSimulating, packetType,
                   networkStats, packetFilters, savedConfigs, findArgs, findResult, timerVars, quizVars>>

\* { ...conn, ...updates }
Spread(rec, updates) ==
    [k \in DOMAIN rec \cup DOMAIN updates |->
        IF k \in DOMAIN updates THEN updates[k] ELSE rec[k]]

updateConnection(connectionId, updates) ==
    /\ \E i \in 1..Len(connections) : connections[i].id = connectionId
    /\ connections' =
         [i \in 1..Len(connections) |->
             IF connections[i].id = connectionId
             THEN Spread(connections[i], updates)
             ELSE connections[i]]
    /\ UNCHANGED <<nodes, packets, selectedNode, isSimulating, packetType,
                   networkStats, packetFilters, savedConfigs, findArgs, findResult, timerVars, quizVars>>

(***************************************************************************)
(* The Node Configuration inputs: a text is a sequence of characters.      *)
(* parseInt and parseFloat read the longest numeric prefix (the texts here *)
(* have no sign, exponent or leading blank) and give NaN when there is     *)
(* none; `|| 0` turns NaN and 0 into 0.                                    *)
(***************************************************************************)
Digits == <<"0", "1", "2", "3", "4", "5", "6", "7", "8", "9">>

IsDigit(c) == \E k \in 1..Len(Digits) : Digits[k] = c

DigitValue(c) == (CHOOSE k \in 1..Len(Digits) : Digits[k] = c) - 1

RECURSIVE LeadingDigits(_)
LeadingDigits(text) ==
    IF text # <<>> /\ IsDigit(Head(text))
    THEN <<Head(text)>> \o LeadingDigits(Tail(text))
    ELSE <<>>

RECURSIVE DigitsValue(_)
DigitsValue(ds) ==
    IF ds = <<>> THEN 0
    ELSE 10 * DigitsValue(SubSeq(ds, 1, Len(ds) - 1)) + DigitValue(ds[Len(ds)])

RECURSIVE Pow10(_)
Pow10(k) == IF k = 0 THEN 1 ELSE 10 * Pow10(k - 1)

parseInt(text) ==
    IF LeadingDigits(text) = <<>> THEN NaN
    ELSE Rat(DigitsValue(LeadingDigits(text)), 1)

parseFloat(text) ==
    LET whole == LeadingDigits(text)
        rest == SubSeq(text, Len(whole) + 1, Len(text))
        fraction == IF rest # <<>> /\ Head(rest) = "."
                    THEN LeadingDigits(Tail(rest)) ELSE <<>>
    IN  IF whole = <<>> /\ fraction = <<>> THEN NaN
        ELSE Rat(DigitsValue(whole \o fraction), Pow10(Len(fraction)))

\* Number(text): 0 for the empty text, the value of a text that is a number
\* from its first to its last character, NaN for any other
Number(text) ==
    LET whole == LeadingDigits(text)
        rest == SubSeq(text, Len(whole) + 1, Len(text))
        dotted == rest # <<>> /\ Head(rest) = "."
        fraction == IF dotted THEN LeadingDigits(Tail(rest)) ELSE <<>>
        consumed == Len(whole) + (IF dotted THEN 1 + Len(fraction) ELSE 0)
    IN  IF text = <<>> THEN Rat(0, 1)
        ELSE IF consumed = Len(text) /\ (whole # <<>> \/ fraction # <<>>)
             THEN Rat(DigitsValue(whole \o fraction), Pow10(Len(fraction)))
             ELSE NaN

\* value || 0
OrZero(value) == IF value = NaN \/ value[1] = 0 THEN Rat(0, 1) ELSE value

\* the onChangeText of Node Configuration written as an assignment to the
\* node object, which every saved configuration holding that object shares
nodeConfigOnChangeTextInPlace(field, text) ==
    LET value == IF field = "bandwidth" THEN OrZero(parseInt(text))
                 ELSE OrZero(parseFloat(text))
        edited(ns) == [i \in 1..Len(ns) |->
                          IF ns[i].id = selectedNode /\ ns[i] \in Range(nodes)
                          THEN [ns[i] EXCEPT ![field] = value]
                          ELSE ns[i]]
    IN  /\ selectedNode # null
        /\ nodes' = edited(nodes)
        /\ savedConfigs' =
             [k \in 1..Len(savedConfigs) |->
                 [savedConfigs[k] EXCEPT !.nodes = edited(@)]]
        /\ UNCHANGED <<connections, packets, selectedNode, isSimulating,
                       packetType, networkStats, packetFilters,
                       findArgs, findResult, timerVars, quizVars>>

\* the onChangeText of the Bandwidth, Latency and Packet Loss inputs of Node
\* Configuration, shown for the selected node
nodeConfigOnChangeText(field, text) ==
    LET value == IF field = "bandwidth" THEN OrZero(parseInt(text))
                 ELSE OrZero(parseFloat(text))
    IN  /\ selectedNode # null
        /\ nodes' = [i \in 1..Len(nodes) |->
                        IF nodes[i].id = selectedNode
                        THEN [nodes[i] EXCEPT ![field] = value]
                        ELSE nodes[i]]
        /\ UNCHANGED <<connections, packets, selectedNode, isSimulating,
                       packetType, networkStats, packetFilters, savedConfigs,
                       findArgs, findResult, timerVars, quizVars>>

updatePacketFilter(nodeId, updates) ==
    /\ packetFilters' =
         [id \in DOMAIN packetFilters \cup {nodeId} |->
             IF id = nodeId
             THEN Spread(IF nodeId \in DOMAIN packetFilters
                         THEN packetFilters[nodeId] ELSE <<>>, updates)
             ELSE packetFilters[id]]
    /\ UNCHANGED <<nodes, connections, packets, selectedNode, isSimulating,
                   packetType, networkStats, savedConfigs,
                   findArgs, findResult, timerVars, quizVars>>

\* the onPress of a packet type button of Packet Filters: the type is taken
\* out of the node's allowedTypes when it is there, appended when it is not
filterTypeOnPress(nodeId, type) ==
    LET currentTypes ==
            IF nodeId \in DOMAIN packetFilters
                  /\ "allowedTypes" \in DOMAIN packetFilters[nodeId]
            THEN packetFilters[nodeId].allowedTypes ELSE <<>>
        newTypes ==
            IF type \in Range(currentTypes)
            THEN SelectSeq(currentTypes, LAMBDA t : t # type)
            ELSE Append(currentTypes, type)
    IN  /\ HasNode(nodes, nodeId)
        /\ updatePacketFilter(nodeId, [allowedTypes |-> newTypes])

\* the onChangeText of the Bandwidth, Latency and Packet Loss inputs of
\* Connection Configuration: updateConnection with Number(value), divided by
\* 100 for the packet loss
connectionConfigOnChangeText(connectionId, field, value) ==
    updateConnection(connectionId,
        IF field = "bandwidth" THEN [bandwidth |-> Number(value)]
        ELSE IF field = "latency" THEN [latency |-> Number(value)]
        ELSE [packetLoss |-> Times(Number(value), Rat(1, 100))])

\* the onChangeText of the Max Bandwidth and Priority inputs of Packet Filters
filterConfigOnChangeText(nodeId, field, value) ==
    /\ HasNode(nodes, nodeId)
    /\ updatePacketFilter(nodeId,
           IF field = "maxBandwidth" THEN [maxBandwidth |-> Number(value)]
           ELSE [priority |-> Number(value)])

setPacketType(type) ==
    /\ packetType' = type
    /\ UNCHANGED <<nodes, connections, packets, selectedNode, isSimulating,
                   networkStats, packetFilters, savedConfigs, findArgs, findResult, timerVars, quizVars>>

(***************************************************************************)
(* sendPacket(source, destination) with updateNetworkStats(newPacket).     *)
(* now is the reading of Date.now(): not before the last packet's.         *)
(***************************************************************************)
LastTimestamp == IF packets = <<>> THEN 0 ELSE packets[Len(packets)].timestamp

statsEntry(stats, id) ==
    IF id \in DOMAIN stats THEN stats[id]
    ELSE [packetsSent |-> 0, packetsReceived |-> 0]

\* updateNetworkStats without newStats.packetTypes[packet.type]++
updateNetworkStatsNoType(prev, packet) ==
    LET withSource ==
            [id \in DOMAIN prev.nodeStats \cup {packet.source, packet.destination} |->
                statsEntry(prev.nodeStats, id)]
        sent == [withSource EXCEPT ![packet.source].packetsSent = @ + 1]
        received == [sent EXCEPT ![packet.destination].packetsReceived = @ + 1]
    IN  [prev EXCEPT !.totalPackets = @ + 1,
                     !.nodeStats = received]

updateNetworkStats(prev, packet) ==
    LET withSource ==
            [id \in DOMAIN prev.nodeStats \cup {packet.source, packet.destination} |->
                statsEntry(prev.nodeStats, id)]
        sent == [withSource EXCEPT ![packet.source].packetsSent = @ + 1]
        received == [sent EXCEPT ![packet.destination].packetsReceived = @ + 1]
    IN  [prev EXCEPT !.totalPackets = @ + 1,
                     !.packetTypes[packet.type] = @ + 1,
                     !.nodeStats = received]

newPacket(source, destination, path, type, now) ==
    [id |-> "p" \o ToString(now), source |-> source, destination |-> destination,
     path |-> path, currentPosition |-> 0, status |-> "moving",
     type |-> type, timestamp |-> now]

sendPacketNoCheck(source, destination, now) ==
    LET path == findPath(source, destination, nodes)
    IN  /\ packets' = Append(packets,
                         newPacket(source, destination, path, packetType, now))
        /\ networkStats' =
             updateNetworkStats(networkStats,
                 newPacket(source, destination, path, packetType, now))
        /\ UNCHANGED <<nodes, connections, selectedNode, isSimulating,
                       packetType, packetFilters, savedConfigs,
                       findArgs, findResult, timerVars, quizVars>>

sendPacket(source, destination, now) ==
    LET path == findPath(source, destination, nodes)
    IN  IF path = <<>>
        THEN UNCHANGED vars
        ELSE /\ packets' = Append(packets,
                              newPacket(source, destination, path, packetType, now))
             /\ networkStats' =
                  updateNetworkStats(networkStats,
                      newPacket(source, destination, path, packetType, now))
             /\ UNCHANGED <<nodes, connections, selectedNode, isSimulating,
                            packetType, packetFilters, savedConfigs,
                            findArgs, findResult, timerVars, quizVars>>

(***************************************************************************)
(* The tick effect, useEffect(..., [isSimulating, simulationSpeed]): when   *)
(* isSimulating changes, the cleanup returned by the effect's last run (if *)
(* any) clears its interval, and the effect runs again, setting a new      *)
(* interval when isSimulating.  setSimulationSpeed has no caller, so       *)
(* simulationSpeed stays 1000 and only the toggle re-runs the effect.      *)
(* tick is the callback of an interval that has not been cleared.          *)
(***************************************************************************)
\* the id setInterval returns: one that no live interval carries
NewIntervalId(live) ==
    CHOOSE k \in 1..(Cardinality(live) + 1) :
        /\ k \notin live
        /\ \A j \in 1..(k - 1) : j \in live

\* the effect without `return () => clearInterval(interval)`
tickEffectNoCleanup(simulating) ==
    IF simulating
    THEN /\ intervals' = intervals \cup {NewIntervalId(intervals)}
         /\ cleanup' = 0
    ELSE UNCHANGED <<intervals, cleanup>>

tickEffect(simulating) ==
    LET live == intervals \ {cleanup}
    IN  IF simulating
        THEN /\ intervals' = live \cup {NewIntervalId(live)}
             /\ cleanup' = NewIntervalId(live)
        ELSE /\ intervals' = live
             /\ cleanup' = 0

tickPacketNoStop(packet) ==
    IF packet.status # "moving"
    THEN packet
    ELSE [packet EXCEPT !.currentPosition = packet.currentPosition + 1,
                        !.status = IF packet.currentPosition + 1 >= Len(packet.path)
                                   THEN "delivered" ELSE "moving"]

\* a tick that stops at the last index without setting 'delivered'
tickPacketStall(packet) ==
    IF packet.status # "moving"
    THEN packet
    ELSE LET newPosition == packet.currentPosition + 1
         IN  IF newPosition >= Len(packet.path)
             THEN packet
             ELSE [packet EXCEPT !.currentPosition = newPosition]

tickPacket(packet) ==
    IF packet.status # "moving"
    THEN packet
    ELSE LET newPosition == packet.currentPosition + 1
         IN  IF newPosition >= Len(packet.path)
             THEN [packet EXCEPT !.status = "delivered"]
             ELSE [packet EXCEPT !.currentPosition = newPosition]

tickPrune ==
    /\ intervals # {}
    /\ packets' = SelectSeq([i \in 1..Len(packets) |-> tickPacket(packets[i])],
                            LAMBDA p : p.status = "moving")
    /\ UNCHANGED <<nodes, connections, selectedNode, isSimulating, packetType,
                   networkStats, packetFilters, savedConfigs, findArgs, findResult, timerVars, quizVars>>

\* the body of tick, whether or not an interval is there to call it
tickWhileStopped ==
    /\ packets' = [i \in 1..Len(packets) |-> tickPacket(packets[i])]
    /\ UNCHANGED <<nodes, connections, selectedNode, isSimulating, packetType,
                   networkStats, packetFilters, savedConfigs, findArgs, findResult, timerVars, quizVars>>

tick ==
    /\ intervals # {}
    /\ packets' = [i \in 1..Len(packets) |-> tickPacket(packets[i])]
    /\ UNCHANGED <<nodes, connections, selectedNode, isSimulating, packetType,
                   networkStats, packetFilters, savedConfigs, findArgs, findResult, timerVars, quizVars>>

toggleSimulationNoCleanup ==
    /\ isSimulating' = ~isSimulating
    /\ tickEffectNoCleanup(~isSimulating)
    /\ UNCHANGED <<nodes, connections, packets, selectedNode, packetType,
                   networkStats, packetFilters, savedConfigs, findArgs, findResult, quizVars>>

\* the Start/Stop Simulation button: setIsSimulating(!isSimulating), and the
\* tick effect of the render that follows
toggleSimulation ==
    /\ isSimulating' = ~isSimulating
    /\ tickEffect(~isSimulating)
    /\ UNCHANGED <<nodes, connections, packets, selectedNode, packetType,
                   networkStats, packetFilters, savedConfigs, findArgs, findResult, quizVars>>

(***************************************************************************)
(* applyTopology, applyScenario, saveCurrentConfig, loadConfig,            *)
(* deleteConfig.                                                           *)
(***************************************************************************)
applyTopologyReroute(topology) ==
    /\ nodes' = TopologyCreate(topology)
    /\ connections' = <<>>
    /\ packets' = [i \in 1..Len(packets) |->
                     [packets[i] EXCEPT !.path =
                         findPath(packets[i].source, packets[i].destination,
                                  TopologyCreate(topology))]]
    /\ UNCHANGED <<selectedNode, isSimulating, packetType,
                   networkStats, packetFilters, savedConfigs, findArgs, findResult, timerVars, quizVars>>

\* applyTopology without setConnections([])
applyTopologyKeepConnections(topology) ==
    /\ nodes' = TopologyCreate(topology)
    /\ UNCHANGED <<connections, packets, selectedNode, isSimulating, packetType,
                   networkStats, packetFilters, savedConfigs, findArgs, findResult, timerVars, quizVars>>

applyTopology(topology) ==
    /\ nodes' = TopologyCreate(topology)
    /\ connections' = <<>>
    /\ UNCHANGED <<packets, selectedNode, isSimulating, packetType,
                   networkStats, packetFilters, savedConfigs, findArgs, findResult, timerVars, quizVars>>

applyScenario(scenario) ==
    \E failed \in FailureChoices(nodes) :
        /\ nodes' = ScenarioNodes(scenario, nodes, failed)
        /\ connections' = ScenarioConnections(scenario, connections, failed)
        /\ packetFilters' = ScenarioFilters(scenario, nodes)
        /\ UNCHANGED <<packets, selectedNode, isSimulating, packetType,
                       networkStats, savedConfigs, findArgs, findResult, timerVars, quizVars>>

saveCurrentConfig(configName) ==
    /\ savedConfigs' =
         Append(savedConfigs,
                [nodes |-> nodes, connections |-> connections,
                 packetFilters |-> packetFilters, name |-> configName])
    /\ UNCHANGED <<nodes, connections, packets, selectedNode, isSimulating,
                   packetType, networkStats, packetFilters, findArgs, findResult, timerVars, quizVars>>

loadConfig(config) ==
    /\ nodes' = config.nodes
    /\ connections' = config.connections
    /\ packetFilters' = config.packetFilters
    /\ UNCHANGED <<packets, selectedNode, isSimulating, packetType,
                   networkStats, savedConfigs, findArgs, findResult, timerVars, quizVars>>

deleteConfig(configName) ==
    /\ \E i \in 1..Len(savedConfigs) : savedConfigs[i].name = configName
    /\ savedConfigs' = SelectSeq(savedConfigs, LAMBDA c : c.name # configName)
    /\ UNCHANGED <<nodes, connections, packets, selectedNode, isSimulating,
                   packetType, networkStats, packetFilters, findArgs, findResult, timerVars, quizVars>>

\* A scenario is applied while the numbers it scales are within the bounds:
\* security while every bandwidth is at least MinBandwidth, congestion while
\* every latency is at most MaxLatency.
ScenarioInBounds(scenario) ==
    /\ scenario = "security" =>
          /\ \A i \in 1..Len(nodes) :
                Leq(Rat(MinBandwidth, 1), nodes[i].bandwidth)
          /\ \A i \in 1..Len(connections) :
                Leq(Rat(MinBandwidth, 1), connections[i].bandwidth)
    /\ scenario = "congestion" =>
          /\ \A i \in 1..Len(nodes) :
                Leq(nodes[i].latency, Rat(MaxLatency, 1))
          /\ \A i \in 1..Len(connections) :
                Leq(connections[i].latency, Rat(MaxLatency, 1))

(***************************************************************************)
(* The engine: graph edits, scenarios, sends and ticks, from the screen    *)
(* after construction, with packets of the initial packet type.  Saved     *)
(* configurations are left to SpecConfig.                                  *)
(***************************************************************************)
\* the nodes a press can land on
PressIds == {"H1", "N9"}

\* the (source, destination) pairs sendPacket is called with
SendPairs == {<<"H1", "H1">>, <<"H1", "H2">>, <<"H1", "N9">>}

NewNodeTypes == {"host"}

EngineTopologies == {"star"}

EngineScenarios == {"normal", "failure"}

\* Date.now() at a send: not before the last packet's timestamp
Clock == IF packets = <<>> THEN {1} ELSE {LastTimestamp, LastTimestamp + 1}

AddedCount == Cardinality(NodeIds(nodes) \cap AddedIds)

Next ==
    \/ \E nodeId \in PressIds :
          /\ selectedNode \in {null, nodeId} \/ Len(connections) < MaxConnections
          /\ handleNodePress(nodeId)
    \/ \E nodeId \in PressIds : nodeOnPress(nodeId)
    \/ /\ AddedCount < MaxAdded
       /\ \E type \in NewNodeTypes : addNode(type)
    \/ \E i \in 1..Len(connections), status \in {"active", "inactive"} :
          updateConnection(connections[i].id, [status |-> status])
    \/ /\ Len(packets) < MaxPackets
       /\ \E pair \in SendPairs, now \in Clock : sendPacket(pair[1], pair[2], now)
    \/ tick
    \/ toggleSimulation
    \/ \E topology \in EngineTopologies : applyTopology(topology)
    \/ \E scenario \in EngineScenarios :
          ScenarioInBounds(scenario) /\ applyScenario(scenario)

Spec == Init /\ [][Next]_vars

(***************************************************************************)
(* The screen with its saved configurations: every handler, with at most   *)
(* MaxConfigPackets packets.                                               *)
(***************************************************************************)
ConfigPressIds == {"H3", "N9"}

ConfigSendPairs == {<<"H3", "H4">>}

ConfigNames == {"lab"}

ConfigScenarios == {"normal", "security"}

ConfigTopologies == {"star"}

NextConfig ==
    \/ \E nodeId \in ConfigPressIds :
          /\ selectedNode \in {null, nodeId} \/ Len(connections) < MaxConnections
          /\ handleNodePress(nodeId)
    \/ \E nodeId \in ConfigPressIds : nodeOnPress(nodeId)
    \/ /\ AddedCount < MaxAdded
       /\ \E type \in NewNodeTypes : addNode(type)
    \/ \E i \in 1..Len(connections), status \in {"active", "inactive"} :
          updateConnection(connections[i].id, [status |-> status])
    \/ /\ Len(packets) < MaxConfigPackets
       /\ \E pair \in ConfigSendPairs, now \in Clock :
             sendPacket(pair[1], pair[2], now)
    \/ tick
    \/ toggleSimulation
    \/ \E topology \in ConfigTopologies : applyTopology(topology)
    \/ \E scenario \in ConfigScenarios :
          ScenarioInBounds(scenario) /\ applyScenario(scenario)
    \/ /\ Len(savedConfigs) < MaxSaved
       /\ \E configName \in ConfigNames : saveCurrentConfig(configName)
    \/ \E i \in 1..Len(savedConfigs) : loadConfig(savedConfigs[i])
    \/ \E configName \in ConfigNames : deleteConfig(configName)

SpecConfig == Init /\ [][NextConfig]_vars

(***************************************************************************)
(* The layouts and the scenarios: graph edits, every layout and every      *)
(* scenario, without packets.                                              *)
(***************************************************************************)
MaxLayoutConnections == 1

LayoutPressIds == {"R1", "S1", "N9"}

LayoutNodeTypes == {"router"}

NextLayout ==
    \/ \E nodeId \in LayoutPressIds :
          /\ selectedNode \in {null, nodeId}
                \/ Len(connections) < MaxLayoutConnections
          /\ handleNodePress(nodeId)
    \/ \E nodeId \in LayoutPressIds : nodeOnPress(nodeId)
    \/ /\ AddedCount < MaxAdded
       /\ \E type \in LayoutNodeTypes : addNode(type)
    \/ \E i \in 1..Len(connections), status \in {"active", "inactive"} :
          updateConnection(connections[i].id, [status |-> status])
    \/ \E topology \in Topologies : applyTopology(topology)
    \/ \E scenario \in Scenarios :
          ScenarioInBounds(scenario) /\ applyScenario(scenario)

SpecLayout == Init /\ [][NextLayout]_vars

(***************************************************************************)
(* The traffic: sends of every packet type, ticks and the Start/Stop       *)
(* button, on the initial graph.  No node N9 is ever there, so a send to   *)
(* N9 finds no path.                                                       *)
(***************************************************************************)
MaxTrafficPackets == 3

TrafficSendPairs == {<<"H1", "H2">>, <<"H1", "H1">>, <<"H1", "N9">>}

PacketTypes == {"TCP", "UDP", "ICMP"}

NextTraffic ==
    \/ \E type \in PacketTypes : setPacketType(type)
    \/ /\ Len(packets) < MaxTrafficPackets
       /\ \E pair \in TrafficSendPairs, now \in Clock :
             sendPacket(pair[1], pair[2], now)
    \/ tick
    \/ toggleSimulation

SpecTraffic == Init /\ [][NextTraffic]_vars

\* setInterval calls the callback again and again for as long as the
\* interval is not cleared: a tick that would change a packet is not put off
\* for ever
SpecTrafficFair == Init /\ [][NextTraffic]_vars /\ WF_vars(tick)

(***************************************************************************)
(* The saved configurations with every edit of the graph and the filters,  *)
(* without packets.                                                        *)
(***************************************************************************)
MaxSnapshots == 1

SnapshotPressIds == {"H3", "N9"}

SnapshotFields == {"bandwidth"}

SnapshotFilterIds == {"H3"}

SnapshotFilterTypes == {"UDP"}

SnapshotTexts == {<<"2", "5">>, <<"a">>}

SnapshotScenarios == {"normal"}

NextSnapshot ==
    \/ \E nodeId \in SnapshotPressIds :
          /\ selectedNode \in {null, nodeId} \/ Len(connections) < MaxConnections
          /\ handleNodePress(nodeId)
    \/ \E nodeId \in SnapshotPressIds : nodeOnPress(nodeId)
    \/ /\ AddedCount < MaxAdded
       /\ \E type \in NewNodeTypes : addNode(type)
    \/ \E field \in SnapshotFields, text \in SnapshotTexts :
          nodeConfigOnChangeText(field, text)
    \/ \E i \in 1..Len(connections), status \in {"active", "inactive"} :
          updateConnection(connections[i].id, [status |-> status])
    \/ \E nodeId \in SnapshotFilterIds, type \in SnapshotFilterTypes :
          filterTypeOnPress(nodeId, type)
    \/ \E topology \in ConfigTopologies : applyTopology(topology)
    \/ \E scenario \in SnapshotScenarios :
          ScenarioInBounds(scenario) /\ applyScenario(scenario)
    \/ /\ Len(savedConfigs) < MaxSnapshots
       /\ \E configName \in ConfigNames : saveCurrentConfig(configName)
    \/ \E i \in 1..Len(savedConfigs) : loadConfig(savedConfigs[i])
    \/ \E configName \in ConfigNames : deleteConfig(configName)

SpecSnapshot == Init /\ [][NextSnapshot]_vars

(***************************************************************************)
(* The numeric inputs of Node Configuration, Connection Configuration and  *)
(* Packet Filters, with the congestion scenario, on the initial graph.     *)
(* At most MaxEdits values are away from what the screen created them      *)
(* with when an input is typed into, and congestion is applied while every *)
(* packetLoss is at most MaxPacketLoss.                                    *)
(***************************************************************************)
MaxEdits == 2

MaxPacketLoss == 2

InputPressIds == {"R1", "H1"}

InputFilterIds == {"R1"}

NumericFields == {"bandwidth", "latency", "packetLoss"}

FilterFields == {"maxBandwidth", "priority"}

InputTexts == {<<"a">>, <<>>, <<"5", "0">>, <<"1", ".", "5">>}

EditedCount ==
    Cardinality({e \in (1..Len(nodes)) \X NumericFields :
                    nodes[e[1]][e[2]]
                        # Node(nodes[e[1]].id, nodes[e[1]].type, <<>>)[e[2]]})
    + Cardinality({e \in (1..Len(connections)) \X NumericFields :
                      connections[e[1]][e[2]]
                          # newConnection(<<>>, "", "")[e[2]]})
    + Cardinality({e \in (DOMAIN packetFilters) \X FilterFields :
                      e[2] \in DOMAIN packetFilters[e[1]]})

PacketLossInBounds ==
    /\ \A i \in 1..Len(nodes) :
          Leq(nodes[i].packetLoss, Rat(MaxPacketLoss, 1))
    /\ \A i \in 1..Len(connections) :
          Leq(connections[i].packetLoss, Rat(MaxPacketLoss, 1))

NextInput ==
    \/ \E nodeId \in InputPressIds :
          /\ selectedNode \in {null, nodeId} \/ Len(connections) < MaxConnections
          /\ handleNodePress(nodeId)
    \/ \E nodeId \in InputPressIds : nodeOnPress(nodeId)
    \/ /\ EditedCount < MaxEdits
       /\ \E field \in NumericFields, text \in InputTexts :
             nodeConfigOnChangeText(field, text)
    \/ /\ EditedCount < MaxEdits
       /\ \E i \in 1..Len(connections), field \in NumericFields,
                text \in InputTexts :
             connectionConfigOnChangeText(connections[i].id, field, text)
    \/ /\ EditedCount < MaxEdits
       /\ \E nodeId \in InputFilterIds, field \in FilterFields,
                text \in InputTexts :
             filterConfigOnChangeText(nodeId, field, text)
    \/ PacketLossInBounds /\ applyScenario("congestion")

SpecInput == Init /\ [][NextInput]_vars

(***************************************************************************)
(* Presses on the simulation area of the initial graph, with up to         *)
(* MaxHitAdded added nodes and MaxHitConnections connections.              *)
(***************************************************************************)
MaxHitAdded == 2

MaxHitConnections == 2

HitNodeTypes == {"host", "router"}

HitPoints == {<<200, 200>>, <<200, 225>>, <<220, 220>>, <<100, 100>>,
              <<100, 230>>, <<0, 0>>}

NextHit ==
    \/ /\ Len(nodes) < Len(initialNodes) + MaxHitAdded
       /\ \E type \in HitNodeTypes : addNode(type)
    \/ /\ selectedNode = null \/ Len(connections) < MaxHitConnections
       /\ \E point \in HitPoints : simulationAreaOnPress(point[1], point[2])

SpecHit == Init /\ [][NextHit]_vars

(***************************************************************************)
(* The ids of nodes and connections: up to MaxIdAdded added nodes and      *)
(* MaxIdConnections connections, with the layouts, the scenarios and the   *)
(* saved configurations.                                                   *)
(***************************************************************************)
MaxIdAdded == 2

MaxIdConnections == 2

IdPressIds == {"R1", "S1"}

IdTopologies == {"star"}

IdScenarios == {"normal", "failure"}

NextIds ==
    \/ \E nodeId \in IdPressIds :
          /\ selectedNode \in {null, nodeId}
                \/ Len(connections) < MaxIdConnections
          /\ handleNodePress(nodeId)
    \/ /\ AddedCount < MaxIdAdded
       /\ \E type \in NewNodeTypes : addNode(type)
    \/ \E topology \in IdTopologies : applyTopology(topology)
    \/ \E scenario \in IdScenarios : applyScenario(scenario)
    \/ /\ Len(savedConfigs) < MaxSaved
       /\ \E configName \in ConfigNames : saveCurrentConfig(configName)
    \/ \E i \in 1..Len(savedConfigs) : loadConfig(savedConfigs[i])

SpecIds == Init /\ [][NextIds]_vars

(***************************************************************************)
(* The quiz screen, for a quiz of QuestionCount questions without a time   *)
(* limit.  A history record is the attempt it was written for and the      *)
(* number of the handleQuizComplete call that wrote it (its id and date    *)
(* come from the clock, which has moved on between two presses).  A        *)
(* handler sees the state of the latest render.  getItem reads the slot at *)
(* one moment and the load goes on at a later one; setItem calls resolve   *)
(* in the order they were made, each writing its value, and what follows   *)
(* the await in handleQuizComplete runs when its setItem resolves.         *)
(***************************************************************************)
QuestionCount == 2

MaxAttempts == 2

MaxCalls == 3

Answers == {"correct", "wrong"}

\* a record left in the slot by an earlier visit of the screen
oldRecord == [attempt |-> 0, call |-> 0]

StoredHistories == {<<>>, <<oldRecord>>}

\* AsyncStorage.getItem('quizHistory') reads the slot
getItem ==
    /\ loadHistory = "getItem"
    /\ savedHistory' = storedHistory
    /\ loadHistory' = "await"
    /\ UNCHANGED <<currentQuestion, selectedAnswer, showExplanation, score,
                   quizCompleted, quizHistory, storedHistory, saves, attempt,
                   calls, screenVars, findArgs, findResult>>

\* getItem rejects: the catch logs the error
getItemReject ==
    /\ loadHistory = "getItem"
    /\ loadHistory' = "failed"
    /\ UNCHANGED <<currentQuestion, selectedAnswer, showExplanation, score,
                   quizCompleted, quizHistory, storedHistory, savedHistory,
                   saves, attempt, calls, screenVars, findArgs, findResult>>

\* loadHistory after its await: if (savedHistory) setQuizHistory(...)
loadHistoryResume ==
    /\ loadHistory = "await"
    /\ loadHistory' = "done"
    /\ quizHistory' = IF savedHistory # <<>> THEN savedHistory ELSE quizHistory
    /\ UNCHANGED <<currentQuestion, selectedAnswer, showExplanation, score,
                   quizCompleted, storedHistory, savedHistory, saves, attempt,
                   calls, screenVars, findArgs, findResult>>

\* an option button, enabled until the explanation shows
handleAnswer(answer) ==
    /\ ~quizCompleted
    /\ ~showExplanation
    /\ selectedAnswer' = answer
    /\ score' = IF answer = "correct" THEN score + 1 ELSE score
    /\ showExplanation' = TRUE
    /\ UNCHANGED <<currentQuestion, quizCompleted, quizHistory, storedHistory,
                   loadHistory, savedHistory, saves, attempt, calls,
                   screenVars, findArgs, findResult>>

\* handleQuizComplete up to its await
handleQuizComplete ==
    LET newHistory == [attempt |-> attempt, call |-> calls + 1]
        updatedHistory == <<newHistory>> \o quizHistory
    IN  /\ quizHistory' = updatedHistory
        /\ saves' = Append(saves, updatedHistory)
        /\ calls' = calls + 1
        /\ UNCHANGED <<currentQuestion, selectedAnswer, showExplanation, score,
                       quizCompleted, storedHistory, loadHistory, savedHistory,
                       attempt, screenVars, findArgs, findResult>>

\* the "Next Question" / "Finish Quiz" button, shown with the explanation
handleNextQuestion ==
    /\ ~quizCompleted
    /\ showExplanation
    /\ IF currentQuestion < QuestionCount - 1
       THEN /\ currentQuestion' = currentQuestion + 1
            /\ selectedAnswer' = null
            /\ showExplanation' = FALSE
            /\ UNCHANGED <<score, quizCompleted, quizHistory, storedHistory,
                           loadHistory, savedHistory, saves, attempt, calls,
                           screenVars, findArgs, findResult>>
       ELSE handleQuizComplete

\* the oldest setItem resolves, and handleQuizComplete goes on after its await
setItemResolve ==
    /\ saves # <<>>
    /\ storedHistory' = Head(saves)
    /\ saves' = Tail(saves)
    /\ quizCompleted' = TRUE
    /\ UNCHANGED <<currentQuestion, selectedAnswer, showExplanation, score,
                   quizHistory, loadHistory, savedHistory, attempt, calls,
                   screenVars, findArgs, findResult>>

\* the "Try Again" button of the completed screen
handleRestart ==
    /\ quizCompleted
    /\ currentQuestion' = 0
    /\ selectedAnswer' = null
    /\ showExplanation' = FALSE
    /\ score' = 0
    /\ quizCompleted' = FALSE
    /\ attempt' = attempt + 1
    /\ UNCHANGED <<quizHistory, storedHistory, loadHistory, savedHistory,
                   saves, calls, screenVars, findArgs, findResult>>

InitQuiz == InitSimulator /\ \E stored \in StoredHistories : InitQuizScreen(stored)

NextQuiz ==
    \/ getItem
    \/ getItemReject
    \/ loadHistoryResume
    \/ \E answer \in Answers : handleAnswer(answer)
    \/ /\ currentQuestion < QuestionCount - 1 \/ calls < MaxCalls
       /\ handleNextQuestion
    \/ setItemResolve
    \/ attempt < MaxAttempts /\ handleRestart

SpecQuiz == InitQuiz /\ [][NextQuiz]_vars

(***************************************************************************)
(* findPath on its own: graphs over FindIds built link by link, and calls  *)
(* of findPath on them.  "E" is an id that no node carries.                *)
(***************************************************************************)
FindNodeIds == <<"A", "B", "C", "D">>

FindIds == Range(FindNodeIds) \cup {"E"}

FindSources == {"A"}

LinkCount(ns) == Len(ns[1].connections) + Len(ns[2].connections)
                 + Len(ns[3].connections) + Len(ns[4].connections)

InitFind ==
    /\ nodes = [i \in 1..Len(FindNodeIds) |-> Node(FindNodeIds[i], "host", <<>>)]
    /\ connections = <<>>
    /\ packets = <<>>
    /\ selectedNode = null
    /\ isSimulating = FALSE
    /\ packetType = "TCP"
    /\ networkStats = emptyStats
    /\ packetFilters = <<>>
    /\ savedConfigs = <<>>
    /\ intervals = {}
    /\ cleanup = 0
    /\ findArgs = <<>>
    /\ findResult = <<>>
    /\ InitQuizScreen(<<>>)

\* Link lists are filled in node order, so that each graph is built once,
\* and findPath is called on the finished graph.
AddLink(i, b) ==
    /\ findArgs = <<>>
    /\ LinkCount(nodes) < MaxLinks
    /\ \A j \in (i + 1)..Len(nodes) : nodes[j].connections = <<>>
    /\ nodes' = [nodes EXCEPT ![i].connections = Append(@, b)]
    /\ UNCHANGED <<connections, packets, selectedNode, isSimulating, packetType,
                   networkStats, packetFilters, savedConfigs, findArgs, findResult, timerVars, quizVars>>

FindCall(s, d) ==
    /\ findArgs = <<>>
    /\ findArgs' = <<s, d>>
    /\ findResult' = findPath(s, d, nodes)
    /\ UNCHANGED <<screenVars, quizVars>>

NextFind ==
    \/ \E i \in 1..Len(FindNodeIds), b \in FindIds : AddLink(i, b)
    \/ \E s \in FindSources, d \in FindIds : FindCall(s, d)

SpecFind == InitFind /\ [][NextFind]_vars

\* C1: when d is reachable from s along link lists, findPath(s, d) is a walk
\* from s to d whose hop count is the hop distance from s to d, so no walk
\* from s to d has fewer hops.
FindPathShortest ==
    findArgs # <<>> =>
        LET s == findArgs[1]
            d == findArgs[2]
        IN  Reachable(nodes, s, d) =>
                /\ IsPath(nodes, findResult, s, d)
                /\ Len(findResult) - 1 = Distance(nodes, s, d)

\* findPath returned a two-hop path on a graph that also holds a three-hop
\* walk between the same endpoints
FindPathShortestWitness ==
    /\ findArgs # <<>>
    /\ Len(findResult) = 3
    /\ \E b \in FindIds, c \in FindIds :
          /\ Cardinality({findArgs[1], b, c, findArgs[2]}) = 4
          /\ IsPath(nodes, <<findArgs[1], b, c, findArgs[2]>>,
                    findArgs[1], findArgs[2])

\* C2: for a pair (s, d) with d not reachable from s, findPath returns the
\* empty sequence, and no step that adds a packet or changes a counter of
\* networkStats is a sendPacket(s, d) of such a pair.
UnreachableSendIsNoOp ==
    /\ [](\A pair \in SendPairs :
            ~Reachable(nodes, pair[1], pair[2]) =>
                findPath(pair[1], pair[2], nodes) = <<>>)
    /\ [][(packets' # packets \/ networkStats' # networkStats) =>
            \A pair \in SendPairs, now \in Clock :
                sendPacket(pair[1], pair[2], now) =>
                    Reachable(nodes, pair[1], pair[2])]_vars

\* a send has happened, and a pair of existing, distinct nodes is unreachable
UnreachableSendWitness ==
    /\ packets # <<>>
    /\ \E pair \in SendPairs :
          /\ HasNode(nodes, pair[1])
          /\ HasNode(nodes, pair[2])
          /\ ~Reachable(nodes, pair[1], pair[2])

\* C3: a tick moves every moving packet that has a next hop forward by
\* exactly one, and the packet is delivered on the very tick in which its
\* currentPosition reaches the last index of its path.
DeliveredOnReachingLastIndex ==
    [][tick =>
          \A i \in 1..Len(packets) :
              (/\ packets[i].status = "moving"
               /\ packets[i].currentPosition < Len(packets[i].path) - 1) =>
                  /\ packets'[i].currentPosition = packets[i].currentPosition + 1
                  /\ (packets'[i].currentPosition = Len(packets[i].path) - 1
                        => packets'[i].status = "delivered")
                  /\ (packets'[i].currentPosition < Len(packets[i].path) - 1
                        => packets'[i].status = "moving")]_vars

\* C4: every packet whose currentPosition is the last index of its path is
\* delivered, a packet with a single-node path included.
AtLastIndexDelivered ==
    \A i \in 1..Len(packets) :
        packets[i].currentPosition = Len(packets[i].path) - 1
            => packets[i].status = "delivered"

\* C5: every packet's currentPosition is an index into its path
\* (0 .. path.length - 1), whatever the interleaving of sends and ticks.
ProgressInRange ==
    \A i \in 1..Len(packets) :
        /\ 0 <= packets[i].currentPosition
        /\ packets[i].currentPosition <= Len(packets[i].path) - 1

\* a packet with hops was carried to the end of its path and delivered while
\* the interval is still running
ProgressInRangeWitness ==
    /\ isSimulating
    /\ \E i \in 1..Len(packets) :
          /\ Len(packets[i].path) >= 3
          /\ packets[i].status = "delivered"
          /\ packets[i].currentPosition = Len(packets[i].path) - 1

\* C6: a packet's status changes only from moving to delivered or dropped;
\* a packet that is delivered or dropped is never changed again, by a tick
\* or by anything else, and stays in the packet list.
TerminalStatesFinal ==
    [][\A i \in 1..Len(packets) :
          /\ i <= Len(packets')
          /\ (packets[i].status # "moving" => packets'[i] = packets[i])
          /\ (packets'[i].status # packets[i].status =>
                 /\ packets[i].status = "moving"
                 /\ packets'[i].status \in {"delivered", "dropped"})]_vars

\* the first packet is delivered and has been ticked again since: the second
\* packet, sent after it, has seen more ticks than the first one's path takes
TerminalStatesFinalWitness ==
    /\ Len(packets) = 2
    /\ packets[1].status = "delivered"
    /\ packets[2].currentPosition > Len(packets[1].path)

\* C7: the path of a packet is the sequence it was created with: no step
\* (tick, connect, add node, connection update, applyTopology, applyScenario,
\* loadConfig, ...) changes the path of a packet in the list.
PathFixed ==
    [][\A i \in 1..Len(packets) :
          /\ i <= Len(packets')
          /\ packets'[i].id = packets[i].id
          /\ packets'[i].path = packets[i].path]_vars

\* a packet keeps a path that findPath no longer returns on the current
\* graph, and a configuration has been saved
PathFixedWitness ==
    /\ savedConfigs # <<>>
    /\ \E i \in 1..Len(packets) :
          /\ packets[i].status = "moving"
          /\ packets[i].path #
                findPath(packets[i].source, packets[i].destination, nodes)

\* C8: the graph is undirected: for all nodes a and b, b is in a's link list
\* exactly when a is in b's.
LinksSymmetric ==
    \A a \in NodeIds(nodes), b \in NodeIds(nodes) :
        b \in LinksOf(nodes, a) <=> a \in LinksOf(nodes, b)

\* C9: every id in a node's link list is the id of a node, and both
\* endpoints of every Connection are ids of nodes.
ReferentialIntegrity ==
    /\ \A a \in NodeIds(nodes) : LinksOf(nodes, a) \subseteq NodeIds(nodes)
    /\ \A i \in 1..Len(connections) :
          /\ connections[i].from \in NodeIds(nodes)
          /\ connections[i].to \in NodeIds(nodes)

\* a node of that id, if there is one, has status active
NodeActive(ns, id) == HasNode(ns, id) => FindNode(ns, id).status = "active"

\* C10: the path of a packet that sendPacket creates holds no node that is
\* inactive or in error when it is sent.
NoInactiveNodeOnPath ==
    [][\A pair \in SendPairs, now \in Clock :
          (sendPacket(pair[1], pair[2], now) /\ packets' # packets) =>
              \A id \in Range(packets'[Len(packets')].path) :
                  NodeActive(nodes, id)]_vars

\* the Connection record between a and b, in either direction, if any, is active
LinkActive(cs, a, b) ==
    \A i \in 1..Len(cs) :
        ((cs[i].from = a /\ cs[i].to = b) \/ (cs[i].from = b /\ cs[i].to = a))
            => cs[i].status = "active"

\* C11: the path of a packet that sendPacket creates (the result of findPath
\* at that call) has no two consecutive nodes whose Connection record is
\* inactive at the time of the call.
NoInactiveConnectionOnPath ==
    [][\A pair \in SendPairs, now \in Clock :
          (sendPacket(pair[1], pair[2], now) /\ packets' # packets) =>
              LET path == packets'[Len(packets')].path
              IN  \A k \in 1..(Len(path) - 1) :
                      LinkActive(connections, path[k], path[k + 1])]_vars

\* C12: on the star layout (hub R1 and its six leaves) findPath between any
\* two distinct leaves returns exactly the leaf, R1, the other leaf.
StarLeafPaths ==
    nodes = starCreate =>
        \A a \in NodeIds(starCreate) \ {"R1"}, b \in NodeIds(starCreate) \ {"R1"} :
            a # b => findPath(a, b, nodes) = <<a, "R1", b>>

\* the star layout is in place and a packet sent on it between two leaves
\* travels through R1
StarLeafPathsWitness ==
    /\ nodes = starCreate
    /\ Cardinality(NodeIds(starCreate) \ {"R1"}) = 6
    /\ \E i \in 1..Len(packets) : packets[i].path = <<"H3", "R1", "H4">>

\* C18: no tick occurs while the simulation is stopped: in a step taken while
\* isSimulating is false no packet's currentPosition or status changes, and
\* the Start/Stop button itself leaves the packets as they are, so that after
\* stop and start every packet goes on from the position it was stopped at.
NoTickWhileStopped ==
    [][/\ ~isSimulating =>
            \A i \in 1..Len(packets) :
                /\ i <= Len(packets')
                /\ packets'[i].currentPosition = packets[i].currentPosition
                /\ packets'[i].status = packets[i].status
       /\ isSimulating' # isSimulating => packets' = packets]_vars

\* the simulation was stopped with a packet in flight, past its first hop
NoTickWhileStoppedWitness ==
    /\ ~isSimulating
    /\ intervals = {}
    /\ \E i \in 1..Len(packets) :
          /\ packets[i].status = "moving"
          /\ packets[i].currentPosition >= 1

\* C19: at most one interval of the tick effect is live at any time, whatever
\* the sequence of Start/Stop presses, and no step advances a packet by more
\* than one hop.
SingleTickTimer ==
    /\ [](Cardinality(intervals) <= 1)
    /\ [][\A i \in 1..Len(packets) :
             /\ i <= Len(packets')
             /\ packets'[i].currentPosition <= packets[i].currentPosition + 1]_vars

\* the interval is live while a packet sent after an earlier one was
\* delivered is still on its first node: the simulation ran, and runs
SingleTickTimerWitness ==
    /\ isSimulating
    /\ Cardinality(intervals) = 1
    /\ cleanup \in intervals
    /\ Len(packets) = 2
    /\ packets[1].status = "delivered"
    /\ packets[2].currentPosition = 0

\* the hub R1 is linked to every other node, every other node only to R1
StarShape(ns) ==
    /\ HasNode(ns, "R1")
    /\ LinksOf(ns, "R1") = NodeIds(ns) \ {"R1"}
    /\ \A i \in 1..Len(ns) : ns[i].id # "R1" => Range(ns[i].connections) = {"R1"}

\* every node is linked to every other node
MeshShape(ns) ==
    \A i \in 1..Len(ns) : Range(ns[i].connections) = NodeIds(ns) \ {ns[i].id}

\* C13: applyTopology replaces the whole graph whatever the state before:
\* afterwards the nodes are exactly the generated layout, each as generated
\* (active, with the attributes of its type), no user-added node is left, no
\* Connection record is left, and the link lists have the shape of the
\* layout (star: hub and leaves; mesh: all to all).
TopologyReplacesGraph ==
    [][\A topology \in Topologies :
          applyTopology(topology) =>
              /\ nodes' = TopologyCreate(topology)
              /\ \A i \in 1..Len(nodes') :
                    nodes'[i] =
                        Node(nodes'[i].id, nodes'[i].type, nodes'[i].connections)
              /\ NodeIds(nodes') \cap AddedIds = {}
              /\ connections' = <<>>
              /\ topology = "star" => StarShape(nodes')
              /\ topology = "mesh" => MeshShape(nodes')]_vars

\* the mesh layout is in place, without Connection records, while the node
\* selected is still the user-added N9 of the graph it replaced
TopologyReplacesGraphWitness ==
    /\ nodes = meshCreate
    /\ connections = <<>>
    /\ selectedNode = "N9"

\* the ids of the nodes of that status
IdsOfStatus(ns, status) ==
    {ns[i].id : i \in {j \in 1..Len(ns) : ns[j].status = status}}

\* C14: applyScenario('failure') on a graph with at least two routers or
\* switches leaves exactly two nodes inactive, both routers or switches,
\* every other node active, every Connection with one of the two as an
\* endpoint inactive and every other Connection active.
FailureDeactivatesTwo ==
    [][(applyScenario("failure") /\ Cardinality(CriticalIds(nodes)) >= 2) =>
          LET failed == IdsOfStatus(nodes', "inactive")
          IN  /\ Cardinality({i \in 1..Len(nodes') :
                                 nodes'[i].status = "inactive"}) = 2
              /\ failed \subseteq CriticalIds(nodes')
              /\ \A i \in 1..Len(nodes') :
                    nodes'[i].status \in {"active", "inactive"}
              /\ \A i \in 1..Len(connections') :
                    IF connections'[i].from \in failed
                          \/ connections'[i].to \in failed
                    THEN connections'[i].status = "inactive"
                    ELSE connections'[i].status = "active"]_vars

\* two nodes are inactive, the user-added router N9 among them, and the
\* Connection that ends at an inactive node and starts at an active one is
\* inactive
FailureDeactivatesTwoWitness ==
    /\ Cardinality(IdsOfStatus(nodes, "inactive")) = 2
    /\ "N9" \in IdsOfStatus(nodes, "inactive")
    /\ \E i \in 1..Len(connections) :
          /\ connections[i].status = "inactive"
          /\ connections[i].to \in IdsOfStatus(nodes, "inactive")
          /\ connections[i].from \in IdsOfStatus(nodes, "active")

\* C15: applyScenario('congestion') is a function of the graph it is applied
\* to, and in its result the latency of every node and every Connection is
\* three times, the packetLoss twice and the bandwidth half of what it was.
CongestionScales ==
    [][applyScenario("congestion") =>
          /\ \A f1 \in FailureChoices(nodes), f2 \in FailureChoices(nodes) :
                /\ ScenarioNodes("congestion", nodes, f1)
                     = ScenarioNodes("congestion", nodes, f2)
                /\ ScenarioConnections("congestion", connections, f1)
                     = ScenarioConnections("congestion", connections, f2)
          /\ Len(nodes') = Len(nodes)
          /\ Len(connections') = Len(connections)
          /\ \A i \in 1..Len(nodes) :
                /\ nodes'[i].latency = Times(nodes[i].latency, Rat(3, 1))
                /\ nodes'[i].packetLoss = Times(nodes[i].packetLoss, Rat(2, 1))
                /\ nodes'[i].bandwidth = Times(nodes[i].bandwidth, Rat(1, 2))
          /\ \A i \in 1..Len(connections) :
                /\ connections'[i].latency
                     = Times(connections[i].latency, Rat(3, 1))
                /\ connections'[i].packetLoss
                     = Times(connections[i].packetLoss, Rat(2, 1))
                /\ connections'[i].bandwidth
                     = Times(connections[i].bandwidth, Rat(1, 2))]_vars

\* packetsSent of the node of that id in the statistics, 0 when it has none
SentBy(stats, id) ==
    IF id \in DOMAIN stats.nodeStats THEN stats.nodeStats[id].packetsSent ELSE 0

\* C16: the statistics are updated at the send, not at the delivery.  A step
\* that adds a packet adds exactly one to totalPackets, to the count of that
\* packet's type and to packetsSent of its source, and leaves the counts of
\* the other types alone; a step that adds no packet leaves the statistics
\* alone.  So totalPackets is the number of packets in the list and the sum of
\* the per-type counts.
StatsCountSends ==
    /\ [](/\ networkStats.totalPackets = Len(packets)
          /\ networkStats.totalPackets =
                networkStats.packetTypes["TCP"] + networkStats.packetTypes["UDP"]
                    + networkStats.packetTypes["ICMP"])
    /\ [][IF Len(packets') = Len(packets) + 1
          THEN LET packet == packets'[Len(packets')]
               IN  /\ networkStats'.totalPackets = networkStats.totalPackets + 1
                   /\ \A t \in PacketTypes :
                         networkStats'.packetTypes[t] =
                             networkStats.packetTypes[t]
                                 + (IF t = packet.type THEN 1 ELSE 0)
                   /\ SentBy(networkStats', packet.source)
                         = SentBy(networkStats, packet.source) + 1
          ELSE networkStats' = networkStats]_vars

\* packets of two types were sent, none while the interval was live at first:
\* one packet is delivered, and the sends are all counted
StatsCountSendsWitness ==
    /\ Len(packets) = 3
    /\ networkStats.packetTypes["UDP"] = 2
    /\ networkStats.packetTypes["ICMP"] = 1
    /\ SentBy(networkStats, "H1") = 3
    /\ \E i \in 1..Len(packets) : packets[i].status = "delivered"
    /\ \E i \in 1..Len(packets) : packets[i].status = "moving"

\* the number of packets of that status
CountStatus(ps, status) ==
    Cardinality({i \in 1..Len(ps) : ps[i].status = status})

\* C17: the statistics agree with the packet list: successfulPackets is the
\* number of delivered packets and droppedPackets the number of dropped ones.
StatsMatchPackets ==
    /\ networkStats.successfulPackets = CountStatus(packets, "delivered")
    /\ networkStats.droppedPackets = CountStatus(packets, "dropped")

\* the configuration saveCurrentConfig builds from the live state
Snapshot(configName) ==
    [nodes |-> nodes, connections |-> connections,
     packetFilters |-> packetFilters, name |-> configName]

\* C20: a saved configuration is a copy that nothing changes afterwards.  In
\* every step each configuration of savedConfigs' is either one that was
\* already there, unchanged, or the one just saved, which holds the live
\* nodes, connections and packetFilters of that moment; a configuration
\* leaves savedConfigs only by deleteConfig of its name; and loadConfig of a
\* configuration sets the live nodes, connections and packetFilters to the
\* ones it holds.
SnapshotImmutable ==
    [][/\ \A k \in 1..Len(savedConfigs') :
             \/ savedConfigs'[k] \in Range(savedConfigs)
             \/ \E configName \in ConfigNames :
                   /\ saveCurrentConfig(configName)
                   /\ savedConfigs'[k] = Snapshot(configName)
       /\ \A k \in 1..Len(savedConfigs) :
             \/ savedConfigs[k] \in Range(savedConfigs')
             \/ deleteConfig(savedConfigs[k].name)
       /\ \A k \in 1..Len(savedConfigs) :
             loadConfig(savedConfigs[k]) =>
                 /\ nodes' = savedConfigs[k].nodes
                 /\ connections' = savedConfigs[k].connections
                 /\ packetFilters' = savedConfigs[k].packetFilters]_vars

\* the saved configuration holds the user-added N9 with the bandwidth of its
\* type, an active Connection and a filter, while in the live graph N9's
\* bandwidth has been edited since, the Connection is inactive and the filter
\* is gone
SnapshotImmutableWitness ==
    /\ Len(savedConfigs) = 1
    /\ HasNode(savedConfigs[1].nodes, "N9")
    /\ FindNode(savedConfigs[1].nodes, "N9").bandwidth = TypeBandwidth("host")
    /\ Len(savedConfigs[1].connections) = 1
    /\ savedConfigs[1].connections[1].status = "active"
    /\ savedConfigs[1].packetFilters # <<>>
    /\ HasNode(nodes, "N9")
    /\ FindNode(nodes, "N9").bandwidth = Rat(25, 1)
    /\ Len(connections) = 1
    /\ connections[1].status = "inactive"
    /\ packetFilters = <<>>

\* C21: a text that is not a number, typed into any numeric configuration
\* input (node, connection or packet filter), stores zero in the field it
\* edits.
MalformedInputIsZero ==
    [][\A text \in InputTexts :
          Number(text) = NaN =>
              /\ \A field \in NumericFields :
                    nodeConfigOnChangeText(field, text) =>
                        \A i \in 1..Len(nodes) :
                            nodes[i].id = selectedNode =>
                                nodes'[i][field] = Rat(0, 1)
              /\ \A i \in 1..Len(connections), field \in NumericFields :
                    connectionConfigOnChangeText(connections[i].id, field, text)
                        => connections'[i][field] = Rat(0, 1)
              /\ \A nodeId \in InputFilterIds, field \in FilterFields :
                    filterConfigOnChangeText(nodeId, field, text) =>
                        packetFilters'[nodeId][field] = Rat(0, 1)]_vars

\* C22: no two packets have the same id, two packets sent at the same clock
\* reading included.
PacketIdsUnique ==
    \A i, j \in 1..Len(packets) : packets[i].id = packets[j].id => i = j

\* the ids of the nodes nearest to the pointer among those whose centre is
\* within their own radius of it
NearestIds(locationX, locationY) ==
    LET within == {i \in 1..Len(nodes) :
                      Distance2(nodes[i], locationX, locationY)
                          <= getNodeRadius(nodes[i].type)
                               * getNodeRadius(nodes[i].type)}
    IN  {nodes[i].id : i \in {k \in within :
            \A j \in within :
                Distance2(nodes[k], locationX, locationY)
                    <= Distance2(nodes[j], locationX, locationY)}}

\* C23: a press on the simulation area is a press of a nearest node among
\* those whose centre lies within their radius of the pointer, and changes
\* nothing when there is none, nodes added at the same place included.
HitSelectsNearest ==
    [][\A point \in HitPoints :
          simulationAreaOnPress(point[1], point[2]) =>
              IF NearestIds(point[1], point[2]) = {}
              THEN UNCHANGED vars
              ELSE \E nodeId \in NearestIds(point[1], point[2]) :
                       handleNodePress(nodeId)]_vars

\* two added nodes of different types lie at the same place and a press
\* between their two radii has selected the later one
HitSelectsNearestWitness ==
    \E i, j \in 1..Len(nodes) :
        /\ i < j
        /\ nodes[i].id \in AddedIds /\ nodes[j].id \in AddedIds
        /\ nodes[i].type = "host" /\ nodes[j].type = "router"
        /\ selectedNode = nodes[j].id

\* C24: the packetLoss of every node and of every connection is a
\* probability, between 0 and 1, in every reachable state.
PacketLossInRange ==
    /\ \A i \in 1..Len(nodes) :
          Leq(Rat(0, 1), nodes[i].packetLoss)
              /\ Leq(nodes[i].packetLoss, Rat(1, 1))
    /\ \A i \in 1..Len(connections) :
          Leq(Rat(0, 1), connections[i].packetLoss)
              /\ Leq(connections[i].packetLoss, Rat(1, 1))

\* C25: no node's link list holds the same neighbour twice or the node's
\* own id.
LinkListsAreSets ==
    \A i \in 1..Len(nodes) :
        /\ \A a, b \in 1..Len(nodes[i].connections) :
              nodes[i].connections[a] = nodes[i].connections[b] => a = b
        /\ \A a \in 1..Len(nodes[i].connections) :
              nodes[i].connections[a] # nodes[i].id

\* C26: a non-empty result of findPath(s, d, nodes) starts with s, ends
\* with d, holds no id twice and follows link lists; and findPath returns,
\* with at most one entry per id, on every graph, cyclic ones and ones
\* that link back to the source included.
FindPathSimple ==
    /\ (findArgs # <<>> /\ findResult # <<>>) =>
           /\ IsPath(nodes, findResult, findArgs[1], findArgs[2])
           /\ \A i, j \in 1..Len(findResult) :
                 findResult[i] = findResult[j] => i = j
    /\ \A s \in FindSources, d \in FindIds :
           Len(findPath(s, d, nodes)) <= Cardinality(AllIds(nodes) \cup {s})

\* findPath returned a path of two hops or more whose second node links
\* back to the source
FindPathSimpleWitness ==
    /\ findArgs # <<>>
    /\ Len(findResult) >= 3
    /\ findArgs[1] \in LinksOf(nodes, findResult[2])

\* C27: a packet that is moving is delivered later on, unless the simulation
\* is stopped first; packets sent while the simulation runs included.
MovingIsDelivered ==
    \A i \in 1..MaxTrafficPackets :
        (i <= Len(packets) /\ packets[i].status = "moving")
            ~> (\/ ~isSimulating
                \/ i <= Len(packets) /\ packets[i].status = "delivered")

\* the simulation runs, the first packet has been delivered by its ticks and
\* a packet sent after some of those ticks is on its way
MovingIsDeliveredWitness ==
    /\ isSimulating
    /\ Len(packets) >= 2
    /\ packets[1].status = "delivered"
    /\ Len(packets[1].path) = Len(packets[2].path)
    /\ packets[2].status = "moving"
    /\ packets[2].currentPosition >= 1

\* C28: when a save of handleQuizComplete is written, the 'quizHistory' slot
\* holds every record it held before, and the new record, whatever the load
\* of the mount effect has done by then.
SaveKeepsHistory ==
    [][setItemResolve =>
          /\ \A k \in 1..Len(storedHistory) :
                \E j \in 1..Len(storedHistory') :
                    storedHistory'[j] = storedHistory[k]
          /\ Len(storedHistory') = Len(storedHistory) + 1]_vars

\* C29: the history in memory and the 'quizHistory' slot hold at most one
\* record of each attempt.
OneRecordPerAttempt ==
    /\ \A i, j \in 1..Len(quizHistory) :
          quizHistory[i].attempt = quizHistory[j].attempt => i = j
    /\ \A i, j \in 1..Len(storedHistory) :
          storedHistory[i].attempt = storedHistory[j].attempt => i = j

\* C30: no two nodes have the same id and no two connection records have
\* the same id.
IdsUnique ==
    /\ \A i, j \in 1..Len(nodes) : nodes[i].id = nodes[j].id => i = j
    /\ \A i, j \in 1..Len(connections) :
          connections[i].id = connections[j].id => i = j

\* two nodes were added after a layout had shortened the node list, two
\* connections were made, and a configuration is saved
IdsUniqueWitness ==
    /\ Len(nodes) = 9
    /\ HasNode(nodes, "N8")
    /\ HasNode(nodes, "N9")
    /\ Len(connections) = 2
    /\ savedConfigs # <<>>

====
